---- MODULE Spec2Model ----
(***************************************************************************)
(* Model of weval's specialization state (src/src/state.rs) and of the     *)
(* static image summary it is seeded from (src/src/image.rs).              *)
(*                                                                         *)
(*   SpecContexts : the Contexts arena (create, parent, leaf_element,      *)
(*                  pop_one_loop)                                          *)
(*   SpecFlow     : ProgPointState (meet_with, update_across_edge,         *)
(*                  update_at_block_entry) and MemValue::meet              *)
(*   SpecEntry    : build_image, ProgPointState::entry, FunctionState::init*)
(*   SpecAddr     : SymbolicAddr::add_offset / sub_offset                   *)
(*   SpecJoin     : the states of several predecessors merged into one      *)
(*                  block-entry state                                       *)
(*                                                                         *)
(* and of the dead-code elimination pass (src/src/dce.rs):                 *)
(*                                                                         *)
(*   SpecDce      : dce::run on function bodies drawn from a bounded family*)
(***************************************************************************)
EXTENDS Integers, Sequences, FiniteSets, TLC

VARIABLES
    \* ---- Contexts (state.rs:60-64) ----
    contexts,      \* EntityVec<Context, (Context, ContextElem)>: a sequence, id i at index i+1
    dedup,         \* HashMap<(Context, ContextElem), Context>
    created,       \* history: every create call made so far, as <<parent arg, elem, returned id>>
    lastCreate,    \* history: the last create call, as <<parent arg, elem, returned id, was known>>
    \* ---- one activation of pop_one_loop (state.rs:87-97) ----
    popPc,         \* "idle" | "loop" | "done" | "panic"
    popArg,        \* the argument of the running / last call
    popContext,    \* the local `context`
    popRet,        \* the returned Context
    popSteps,      \* number of times the loop moved to a parent
    popFirst,      \* argument of the first call of a run of repeated applications
    popApps,       \* number of applications in that run
    \* ---- ProgPointState (state.rs:106-111) ----
    state,         \* `self`: [mem_overlay, globals]
    other,         \* the `other` argument of meet_with
    first,         \* history: `self` as Init drew it
    prior,         \* history: `self` as it was before the last operation
    lastOp,        \* the last operation applied to `self`
    changed,       \* the bool meet_with returned
    meets,         \* number of consecutive meet_with(other) calls
    gbCalls,       \* the get_blockparam calls of the last update_at_block_entry: <<addr, ty>>
    rbCalls,       \* the remove_blockparam calls of the last update_at_block_entry: addr
    gbRet,         \* what get_blockparam returned, per address
    result,        \* the anyhow::Result of update_at_block_entry
    \* ---- module / image (image.rs) ----
    module,        \* the module's globals: global id -> GlobalKind
    im,            \* Option<Image>: <<>> before build_image has run, then <<image>>
    \* ---- SymbolicAddr (state.rs:113-135) ----
    sa,            \* one SymbolicAddr and the add_offset / sub_offset calls made on it
    \* ---- a block entry joining several predecessors (state.rs:290-364) ----
    join,          \* the predecessors' exit states and the states merged from them
    \* ---- dce::run (dce.rs:114-181) ----
    dce            \* the FunctionBody, the used set and the position of run in its passes

ctxVars == <<contexts, dedup, created, lastCreate, popPc, popArg, popContext, popRet, popSteps,
             popFirst, popApps>>
flowVars == <<state, other, first, prior, lastOp, changed, meets, gbCalls, rbCalls, gbRet, result>>
imVars == <<module, im>>
restVars == <<sa, join, dce>>
vars == <<ctxVars, flowVars, imVars, restVars>>

(***************************************************************************)
(* Bounds                                                                  *)
(***************************************************************************)
MaxContexts == 3      \* contexts pushed into the arena
MaxPC == 1            \* Loop(pc) for pc in 0..MaxPC
MaxConst == 2         \* concrete constants 1..MaxConst
MaxVal == 1           \* SSA values 1..MaxVal held by the drawn cells
MaxGlobal == 3        \* globals of the module 1..MaxGlobal

(***************************************************************************)
(* Contexts                                                                *)
(***************************************************************************)
\* Context::invalid(): the reserved index u32::MAX, which no arena reaches;
\* written here as the same 32 bits read as a signed number
Invalid == -1

\* Option<Context>: None is the empty sequence, Some(c) the one-element sequence
None == <<>>
Some(c) == <<c>>

Root == [kind |-> "Root"]
Loop(pc) == [kind |-> "Loop", pc |-> pc]
PendingSpecialize(v, id, gen) == [kind |-> "PendingSpecialize", value |-> v, id |-> id, gen |-> gen]
Specialized(v, gen) == [kind |-> "Specialized", value |-> v, gen |-> gen]

ContextElem ==
    {Root} \cup {Loop(pc) : pc \in 0..MaxPC}
           \cup {PendingSpecialize(0, 0, 0), Specialized(0, 0)}

\* identifiers the arena has handed out
Ids(cs) == 0..(Len(cs) - 1)

\* Contexts::parent
parent(cs, c) == cs[c + 1][1]

\* Contexts::leaf_element
leaf_element(cs, c) == cs[c + 1][2]

\* create that pushes a fresh context on every call
create_always_push(cs, dd, par, elem) ==
    LET p == IF par = None THEN Invalid ELSE par[1]
        id == Len(cs)
    IN [contexts |-> Append(cs, <<p, elem>>),
        dedup |-> [k \in (DOMAIN dd) \cup {<<p, elem>>} |->
                      IF k = <<p, elem>> THEN id ELSE dd[k]],
        id |-> id]

\* Contexts::create: the arena and the dedup map after the call, and the id returned
create(cs, dd, par, elem) ==
    LET p == IF par = None THEN Invalid ELSE par[1]
    IN IF <<p, elem>> \in DOMAIN dd
       THEN [contexts |-> cs, dedup |-> dd, id |-> dd[<<p, elem>>]]
       ELSE LET id == Len(cs)
            IN [contexts |-> Append(cs, <<p, elem>>),
                dedup |-> [k \in (DOMAIN dd) \cup {<<p, elem>>} |->
                              IF k = <<p, elem>> THEN id ELSE dd[k]],
                id |-> id]

\* one iteration of the loop that treats Root like PendingSpecialize / Specialized
pop_match_no_root(cs, c) ==
    IF c \notin Ids(cs) THEN [pc |-> "panic", context |-> c, ret |-> Invalid]
    ELSE IF cs[c + 1][2].kind = "Loop"
         THEN [pc |-> "done", context |-> c, ret |-> cs[c + 1][1]]
         ELSE [pc |-> "loop", context |-> cs[c + 1][1], ret |-> Invalid]

\* one iteration of the loop that returns the Loop context itself
pop_match_loop_self(cs, c) ==
    IF c \notin Ids(cs) THEN [pc |-> "panic", context |-> c, ret |-> Invalid]
    ELSE IF cs[c + 1][2].kind = "Loop"
         THEN [pc |-> "done", context |-> c, ret |-> c]
         ELSE IF cs[c + 1][2].kind = "Root"
              THEN [pc |-> "done", context |-> c, ret |-> c]
              ELSE [pc |-> "loop", context |-> cs[c + 1][1], ret |-> Invalid]

\* one iteration of pop_one_loop's loop: index the arena (out of bounds
\* panics), then match on (parent, leaf)
pop_match(cs, c) ==
    IF c \notin Ids(cs) THEN [pc |-> "panic", context |-> c, ret |-> Invalid]
    ELSE IF cs[c + 1][2].kind = "Loop"
         THEN [pc |-> "done", context |-> c, ret |-> cs[c + 1][1]]
         ELSE IF cs[c + 1][2].kind = "Root"
              THEN [pc |-> "done", context |-> c, ret |-> c]
              ELSE [pc |-> "loop", context |-> cs[c + 1][1], ret |-> Invalid]

IdleFlow ==
    /\ state = [mem_overlay |-> <<>>, globals |-> <<>>]
    /\ other = [mem_overlay |-> <<>>, globals |-> <<>>]
    /\ first = [mem_overlay |-> <<>>, globals |-> <<>>]
    /\ prior = [mem_overlay |-> <<>>, globals |-> <<>>]
    /\ lastOp = "none"
    /\ changed = FALSE
    /\ meets = 0
    /\ gbCalls = <<>>
    /\ rbCalls = <<>>
    /\ gbRet = <<>>
    /\ result = "none"

IdleImage ==
    /\ module = <<>>
    /\ im = <<>>

IdleAddr == sa = <<>>

IdleJoin == join = <<>>

IdleDce == dce = <<>>

IdleRest ==
    /\ IdleAddr
    /\ IdleJoin
    /\ IdleDce

InitContexts ==
    /\ IdleFlow
    /\ IdleImage
    /\ IdleRest
    /\ contexts = <<>>
    /\ dedup = <<>>
    /\ created = {}
    /\ lastCreate = <<>>
    /\ popPc = "idle"
    /\ popArg = Invalid
    /\ popContext = Invalid
    /\ popRet = Invalid
    /\ popSteps = 0
    /\ popFirst = Invalid
    /\ popApps = 0

\* contexts.create(parent, elem), parent none or an identifier handed out before
Create(par, elem) ==
    /\ popPc = "idle"
    /\ LET r == create(contexts, dedup, par, elem)
       IN /\ Len(r.contexts) <= MaxContexts
          /\ contexts' = r.contexts
          /\ dedup' = r.dedup
          /\ created' = created \cup {<<par, elem, r.id>>}
          /\ lastCreate' = <<par, elem, r.id, Len(r.contexts) = Len(contexts)>>
    /\ UNCHANGED <<popPc, popArg, popContext, popRet, popSteps, popFirst, popApps>>
    /\ UNCHANGED <<flowVars, imVars, restVars>>

\* contexts.pop_one_loop(c) is entered
PopCall(c) ==
    /\ popPc = "idle"
    /\ popPc' = "loop"
    /\ popArg' = c
    /\ popContext' = c
    /\ popRet' = Invalid
    /\ popSteps' = 0
    /\ popFirst' = c
    /\ popApps' = 1
    /\ UNCHANGED <<contexts, dedup, created, lastCreate>>
    /\ UNCHANGED <<flowVars, imVars, restVars>>

\* one iteration of the loop
PopIter ==
    /\ popPc = "loop"
    /\ LET r == pop_match(contexts, popContext)
       IN /\ popPc' = r.pc
          /\ popContext' = r.context
          /\ popRet' = r.ret
          /\ popSteps' = IF r.pc = "loop" THEN popSteps + 1 ELSE popSteps
    /\ UNCHANGED <<contexts, dedup, created, lastCreate, popArg, popFirst, popApps>>
    /\ UNCHANGED <<flowVars, imVars, restVars>>

\* pop_one_loop is applied to the context the previous application returned
PopAgain ==
    /\ popPc = "done"
    /\ popApps <= MaxContexts
    /\ popPc' = "loop"
    /\ popArg' = popRet
    /\ popContext' = popRet
    /\ popRet' = Invalid
    /\ popSteps' = 0
    /\ popApps' = popApps + 1
    /\ UNCHANGED <<contexts, dedup, created, lastCreate, popFirst>>
    /\ UNCHANGED <<flowVars, imVars, restVars>>

\* the caller drops the result (or the panic has unwound)
PopEnd ==
    /\ popPc \in {"done", "panic"}
    /\ popPc' = "idle"
    /\ popArg' = Invalid
    /\ popContext' = Invalid
    /\ popRet' = Invalid
    /\ popSteps' = 0
    /\ popFirst' = Invalid
    /\ popApps' = 0
    /\ UNCHANGED <<contexts, dedup, created, lastCreate>>
    /\ UNCHANGED <<flowVars, imVars, restVars>>

NextContexts ==
    \/ \E par \in {None} \cup {Some(c) : c \in Ids(contexts)}, elem \in ContextElem : Create(par, elem)
    \/ \E c \in Ids(contexts) : PopCall(c)
    \/ PopIter
    \/ PopAgain
    \/ PopEnd

SpecContexts == InitContexts /\ [][NextContexts]_vars

(***************************************************************************)
(* Abstract values (crate::value, not part of these sources: modelled from *)
(* the specification's lattice laws)                                       *)
(***************************************************************************)
\* a known-at-specialization-time constant
Concrete(c) == [kind |-> "Concrete", val |-> c]

\* AbstractValue::Runtime(None, tags): the opaque/runtime value
Runtime(tags) == [kind |-> "Runtime", tags |-> tags]

\* ValueTags::default(): no tags
NoTags == {}

Tags == {"tag"}

AbstractValue ==
    {Concrete(c) : c \in 1..MaxConst} \cup {Runtime(t) : t \in SUBSET Tags}

\* AbstractValue::meet: a value meets itself to itself; different constants,
\* or anything with a runtime value, meet to the runtime value (tags joined)
AbstractValue_meet(a, b) ==
    IF a = b THEN a
    ELSE Runtime((IF a.kind = "Runtime" THEN a.tags ELSE NoTags)
                 \cup (IF b.kind = "Runtime" THEN b.tags ELSE NoTags))

(***************************************************************************)
(* SymbolicAddr, MemValue                                                  *)
(***************************************************************************)
Type == {"I32", "I64"}

\* waffle::Value: SSA values
Values == 1..MaxVal

SymbolicAddr(token, ty, offset) == [token |-> token, element_ty |-> ty, offset |-> offset]

\* the addresses the overlays of the model range over, in BTreeMap key order
AddrOrder == <<SymbolicAddr(0, "I32", 0), SymbolicAddr(0, "I32", 4)>>

Addrs == {AddrOrder[i] : i \in 1..Len(AddrOrder)}

\* the globals the maps of the model range over, in BTreeMap key order
GlobalOrder == [i \in 1..MaxGlobal |-> i]

Globals == 1..MaxGlobal

Value(data, ty, addr, dirty, abs) ==
    [kind |-> "Value", data |-> data, ty |-> ty, addr |-> addr, dirty |-> dirty, abs |-> abs]

TypedMerge(ty, abs) == [kind |-> "TypedMerge", ty |-> ty, abs |-> abs]

Flushed(ty, addr) == [kind |-> "Flushed", ty |-> ty, addr |-> addr]

Conflict == [kind |-> "Conflict"]

\* the MemValue cells over the given SSA values and abstract values
MemValuesOver(vals, abss) ==
    {Value(d, ty, a, dirty, abs) :
        d \in vals, ty \in Type, a \in vals, dirty \in BOOLEAN, abs \in abss}
    \cup {TypedMerge(ty, abs) : ty \in Type, abs \in abss}
    \cup {Flushed(ty, a) : ty \in Type, a \in vals}
    \cup {Conflict}

MemValue == MemValuesOver(Values, AbstractValue)

\* MemValue::meet without the `a == b` arm
MemValue_meet_no_eq(a, b) ==
    IF a.kind = "Value" /\ b.kind = "Value" /\ a.ty = b.ty
    THEN TypedMerge(a.ty, AbstractValue_meet(a.abs, b.abs))
    ELSE IF a.kind = "TypedMerge" /\ b.kind = "Value" /\ a.ty = b.ty
    THEN TypedMerge(a.ty, AbstractValue_meet(a.abs, b.abs))
    ELSE IF a.kind = "Value" /\ b.kind = "TypedMerge" /\ b.ty = a.ty
    THEN TypedMerge(b.ty, AbstractValue_meet(b.abs, a.abs))
    ELSE Conflict

\* MemValue::meet that does not compare the types
MemValue_meet_no_ty(a, b) ==
    IF a = b THEN a
    ELSE IF a.kind = "Value" /\ b.kind = "Value"
    THEN TypedMerge(a.ty, AbstractValue_meet(a.abs, b.abs))
    ELSE IF a.kind = "TypedMerge" /\ b.kind = "Value"
    THEN TypedMerge(a.ty, AbstractValue_meet(a.abs, b.abs))
    ELSE IF a.kind = "Value" /\ b.kind = "TypedMerge"
    THEN TypedMerge(b.ty, AbstractValue_meet(b.abs, a.abs))
    ELSE Conflict

\* MemValue::meet: the match arms in order
MemValue_meet(a, b) ==
    IF a = b THEN a
    ELSE IF a.kind = "Value" /\ b.kind = "Value" /\ a.ty = b.ty
    THEN TypedMerge(a.ty, AbstractValue_meet(a.abs, b.abs))
    ELSE IF a.kind = "TypedMerge" /\ b.kind = "Value" /\ a.ty = b.ty
    THEN TypedMerge(a.ty, AbstractValue_meet(a.abs, b.abs))
    ELSE IF a.kind = "Value" /\ b.kind = "TypedMerge" /\ b.ty = a.ty
    THEN TypedMerge(b.ty, AbstractValue_meet(b.abs, a.abs))
    ELSE Conflict

(***************************************************************************)
(* BTreeMap helpers: a map is a function on its set of keys                *)
(***************************************************************************)
EmptyMap == <<>>

\* the keys of m, in key order
KeysOf(m, order) == SelectSeq(order, LAMBDA k : k \in DOMAIN m)

\* BTreeMap::insert / assignment through iter_mut
MapPut(m, k, v) == [x \in (DOMAIN m) \cup {k} |-> IF x = k THEN v ELSE m[x]]

\* BTreeMap::remove
MapRemove(m, k) == [x \in (DOMAIN m) \ {k} |-> m[x]]

\* Option<V>
NoBot == <<>>
SomeBot(v) == <<v>>

(***************************************************************************)
(* map_meet_with, ProgPointState                                           *)
(***************************************************************************)
\* the `meet` closure handed to map_meet_with
Meet(which, a, b) ==
    IF which = "MemValue" THEN MemValue_meet(a, b) ELSE AbstractValue_meet(a, b)

\* first loop, key absent from `other`: the value is kept and nothing is reported
absent_in_other_keep(acc, k, bot) == acc

\* first loop, key absent from `other`: the value becomes bot, or the key is queued
\* for removal
absent_in_other(acc, k, bot) ==
    IF bot # NoBot
    THEN [map |-> MapPut(acc.map, k, bot[1]),
          changed |-> acc.changed \/ (acc.map[k] # bot[1]),
          to_remove |-> acc.to_remove]
    ELSE [map |-> acc.map, changed |-> TRUE, to_remove |-> Append(acc.to_remove, k)]

\* first loop, key present in `other`: the value becomes the meet
present_in_both(acc, k, which, other_val) ==
    LET met == Meet(which, acc.map[k], other_val)
    IN [map |-> MapPut(acc.map, k, met),
        changed |-> acc.changed \/ (met # acc.map[k]),
        to_remove |-> acc.to_remove]

\* third loop, key of `other` that `this` does not hold
absent_in_this(acc, k, bot) ==
    [map |-> IF bot # NoBot THEN MapPut(acc.map, k, bot[1]) ELSE MapRemove(acc.map, k),
     changed |-> TRUE]

\* map_meet_with(this, other, meet, bot): the map `this` becomes and the bool returned
map_meet_with(this, oth, which, bot, order) ==
    LET keys == KeysOf(this, order)
        loop1[i \in 0..Len(keys)] ==
            IF i = 0 THEN [map |-> this, changed |-> FALSE, to_remove |-> <<>>]
            ELSE IF keys[i] \in DOMAIN oth
                 THEN present_in_both(loop1[i - 1], keys[i], which, oth[keys[i]])
                 ELSE absent_in_other(loop1[i - 1], keys[i], bot)
        a1 == loop1[Len(keys)]
        loop2[i \in 0..Len(a1.to_remove)] ==
            IF i = 0 THEN a1.map ELSE MapRemove(loop2[i - 1], a1.to_remove[i])
        okeys == KeysOf(oth, order)
        loop3[i \in 0..Len(okeys)] ==
            IF i = 0 THEN [map |-> loop2[Len(a1.to_remove)], changed |-> a1.changed]
            ELSE IF okeys[i] \notin DOMAIN loop3[i - 1].map
                 THEN absent_in_this(loop3[i - 1], okeys[i], bot)
                 ELSE loop3[i - 1]
    IN loop3[Len(okeys)]

ProgPointState(mem, globals) == [mem_overlay |-> mem, globals |-> globals]

\* ProgPointState::meet_with: `self` after the call and the bool returned
meet_with(this, oth) ==
    LET m == map_meet_with(this.mem_overlay, oth.mem_overlay, "MemValue", NoBot, AddrOrder)
        g == map_meet_with(this.globals, oth.globals, "AbstractValue",
                           SomeBot(Runtime(NoTags)), GlobalOrder)
    IN [state |-> ProgPointState(m.map, g.map), changed |-> m.changed \/ g.changed]

\* update_across_edge that leaves the cells as they are
edge_cell_keep(value) == value

\* update_across_edge, one cell
edge_cell(value) ==
    IF value.kind = "Value" THEN TypedMerge(value.ty, value.abs) ELSE value

\* ProgPointState::update_across_edge: `self` after the call
update_across_edge(this) ==
    ProgPointState([a \in DOMAIN this.mem_overlay |-> edge_cell(this.mem_overlay[a])],
                   this.globals)

\* update_at_block_entry, one cell, materializing a clean value
entry_cell_clean(acc, addr, gb) ==
    LET value == acc.map[addr]
    IN IF value.kind = "TypedMerge"
       THEN [acc EXCEPT !.map = MapPut(acc.map, addr,
                                 Value(gb[addr][2], value.ty, gb[addr][1], FALSE, value.abs)),
                        !.gbCalls = Append(acc.gbCalls, <<addr, value.ty>>)]
       ELSE IF value.kind = "Conflict"
       THEN [acc EXCEPT !.rbCalls = Append(acc.rbCalls, addr),
                        !.to_remove = Append(acc.to_remove, addr)]
       ELSE acc

\* update_at_block_entry, the body of the loop over (addr, value): gb[addr] is
\* the (addr, param) pair get_blockparam returns for this address
entry_cell(acc, addr, gb) ==
    LET value == acc.map[addr]
    IN IF value.kind = "TypedMerge"
       THEN [acc EXCEPT !.map = MapPut(acc.map, addr,
                                 Value(gb[addr][2], value.ty, gb[addr][1], TRUE, value.abs)),
                        !.gbCalls = Append(acc.gbCalls, <<addr, value.ty>>)]
       ELSE IF value.kind = "Conflict"
       THEN [acc EXCEPT !.rbCalls = Append(acc.rbCalls, addr),
                        !.to_remove = Append(acc.to_remove, addr)]
       ELSE acc

\* ProgPointState::update_at_block_entry: `self` after the call, the calls
\* made to the two callbacks, and the Result
update_at_block_entry(this, gb) ==
    LET keys == KeysOf(this.mem_overlay, AddrOrder)
        loop1[i \in 0..Len(keys)] ==
            IF i = 0
            THEN [map |-> this.mem_overlay, gbCalls |-> <<>>, rbCalls |-> <<>>,
                  to_remove |-> <<>>]
            ELSE entry_cell(loop1[i - 1], keys[i], gb)
        a1 == loop1[Len(keys)]
        loop2[i \in 0..Len(a1.to_remove)] ==
            IF i = 0 THEN a1.map ELSE MapRemove(loop2[i - 1], a1.to_remove[i])
    IN [state |-> ProgPointState(loop2[Len(a1.to_remove)], this.globals),
        gbCalls |-> a1.gbCalls, rbCalls |-> a1.rbCalls, result |-> "Ok"]

(***************************************************************************)
(* SpecFlow: ProgPointState operations on states drawn from bounded sets   *)
(***************************************************************************)
\* all maps from a subset of keys to vals
MapsOver(keys, vals) == UNION {[d -> vals] : d \in SUBSET keys}

IdleContexts ==
    /\ contexts = <<>>
    /\ dedup = <<>>
    /\ created = {}
    /\ lastCreate = <<>>
    /\ popPc = "idle"
    /\ popArg = Invalid
    /\ popContext = Invalid
    /\ popRet = Invalid
    /\ popSteps = 0
    /\ popFirst = Invalid
    /\ popApps = 0

\* the abstract values the cells of the drawn overlays carry
CellAbs == {Concrete(c) : c \in 1..MaxConst} \cup {Runtime(NoTags)}

\* the cells the drawn overlays hold
Cells == MemValuesOver(Values, CellAbs)

\* the global the drawn globals maps range over
FlowGlobals == {GlobalOrder[1]}

EmptyState == ProgPointState(EmptyMap, EmptyMap)

\* two predecessor states of a join, each holding or not holding a cell at
\* one address and a value for one global
JoinPair(s, o) ==
    /\ \E m \in MapsOver({AddrOrder[1]}, Cells), g \in MapsOver(FlowGlobals, AbstractValue) :
          s = ProgPointState(m, g)
    /\ \E m \in MapsOver({AddrOrder[1]}, Cells), g \in MapsOver(FlowGlobals, AbstractValue) :
          o = ProgPointState(m, g)

\* one state over all the addresses, to be met with the empty state or with a
\* copy of itself
WideState(s, o) ==
    /\ \E m \in MapsOver(Addrs, Cells), g \in MapsOver(FlowGlobals, AbstractValue) :
          s = ProgPointState(m, g)
    /\ o \in {EmptyState, s}

InitFlow ==
    /\ IdleContexts
    /\ IdleImage
    /\ IdleRest
    /\ JoinPair(state, other) \/ WideState(state, other)
    /\ first = state
    /\ prior = state
    /\ lastOp = "none"
    /\ changed = FALSE
    /\ meets = 0
    /\ gbCalls = <<>>
    /\ rbCalls = <<>>
    /\ gbRet = <<>>
    /\ result = "none"

\* self.meet_with(&other)
MeetWith ==
    /\ lastOp \in {"none", "meet_with"}
    /\ meets < 2
    /\ LET r == meet_with(state, other)
       IN /\ state' = r.state
          /\ changed' = r.changed
    /\ prior' = state
    /\ lastOp' = "meet_with"
    /\ meets' = meets + 1
    /\ UNCHANGED <<other, first, gbCalls, rbCalls, gbRet, result>>
    /\ UNCHANGED <<ctxVars, imVars, restVars>>

\* self.update_across_edge()
UpdateAcrossEdge ==
    /\ lastOp = "none"
    /\ state' = update_across_edge(state)
    /\ prior' = state
    /\ lastOp' = "update_across_edge"
    /\ UNCHANGED <<other, first, changed, meets, gbCalls, rbCalls, gbRet, result>>
    /\ UNCHANGED <<ctxVars, imVars, restVars>>

\* self.update_at_block_entry(ctx, get_blockparam, remove_blockparam), the
\* driver's get_blockparam answering gb[addr]
UpdateAtBlockEntry(gb) ==
    /\ lastOp \in {"none", "meet_with"}
    /\ LET r == update_at_block_entry(state, gb)
       IN /\ state' = r.state
          /\ gbCalls' = r.gbCalls
          /\ rbCalls' = r.rbCalls
          /\ result' = r.result
    /\ gbRet' = gb
    /\ prior' = state
    /\ lastOp' = "update_at_block_entry"
    /\ UNCHANGED <<other, first, changed, meets>>
    /\ UNCHANGED <<ctxVars, imVars, restVars>>

\* the SSA values get_blockparam may answer with: one in use, or a fresh one
BlockParams == 1..(MaxVal + 1)

\* the addresses get_blockparam is asked about
TypedMergeAddrs(this) ==
    {a \in DOMAIN this.mem_overlay : this.mem_overlay[a].kind = "TypedMerge"}

NextFlow ==
    \/ MeetWith
    \/ UpdateAcrossEdge
    \/ \E gb \in [TypedMergeAddrs(state) -> BlockParams \X BlockParams] : UpdateAtBlockEntry(gb)

SpecFlow == InitFlow /\ [][NextFlow]_vars

(***************************************************************************)
(* SpecEntry: build_image, ProgPointState::entry, FunctionState::init      *)
(***************************************************************************)
\* walrus GlobalKind / InitExpr, as build_image matches on them
LocalValue(c) == [kind |-> "Local", init |-> [kind |-> "Value", val |-> c]]
LocalGlobalInit == [kind |-> "Local", init |-> [kind |-> "Global"]]
Import == [kind |-> "Import"]

GlobalKind == {LocalValue(c) : c \in 1..MaxConst} \cup {LocalGlobalInit, Import}

\* the modules of the model: up to MaxGlobal globals of any kind
Modules == UNION {[1..n -> GlobalKind] : n \in 0..MaxGlobal}

\* WasmVal::from(val)
WasmVal_from(val) == [kind |-> "I32", bits |-> val]

\* build_image that records every global of the module
build_image_all(m) ==
    [globals |-> [g \in DOMAIN m |->
                     IF m[g].kind = "Local" /\ m[g].init.kind = "Value"
                     THEN WasmVal_from(m[g].init.val) ELSE WasmVal_from(0)]]

\* build_image, the globals field: the globals whose kind is
\* Local(InitExpr::Value(val)), with that value
build_image(m) ==
    [globals |-> [g \in {x \in DOMAIN m : m[x].kind = "Local" /\ m[x].init.kind = "Value"} |->
                     WasmVal_from(m[g].init.val)]]

\* ProgPointState::entry
entry(image) ==
    ProgPointState(EmptyMap, [g \in DOMAIN image.globals |-> Runtime(NoTags)])

InitEntry ==
    /\ IdleContexts
    /\ IdleFlow
    /\ IdleRest
    /\ module \in Modules
    /\ im = <<>>

\* let im = build_image(&module)?
BuildImage ==
    /\ Len(im) = 0
    /\ im' = <<build_image(module)>>
    /\ UNCHANGED <<module, ctxVars, flowVars, restVars>>

\* state.init(&im): the Root context and the function-entry state
FunctionInit ==
    /\ Len(im) = 1
    /\ LET r == create(contexts, dedup, None, Root)
       IN /\ contexts' = r.contexts
          /\ dedup' = r.dedup
          /\ created' = created \cup {<<None, Root, r.id>>}
          /\ lastCreate' = <<None, Root, r.id, Len(r.contexts) = Len(contexts)>>
    /\ state' = entry(im[1])
    /\ prior' = state
    /\ lastOp' = "entry"
    /\ UNCHANGED <<popPc, popArg, popContext, popRet, popSteps, popFirst, popApps>>
    /\ UNCHANGED <<other, first, changed, meets, gbCalls, rbCalls, gbRet, result>>
    /\ UNCHANGED <<imVars, restVars>>

NextEntry ==
    \/ BuildImage
    \/ FunctionInit

SpecEntry == InitEntry /\ [][NextEntry]_vars

(***************************************************************************)
(* Dead-code elimination (src/src/dce.rs)                                  *)
(*                                                                         *)
(* A FunctionBody is [values, blocks, entry]: values[v] is the ValueDef of *)
(* value v, blocks[b] is [params, insts, terminator] with params a list of *)
(* <<type, value>>.  Blocks and values are numbered from 1.                *)
(***************************************************************************)
\* an Operator as far as op_can_be_removed looks at it: the variant, is_load(), effects(),
\* is_pure()
Op(name, is_load, effects, is_pure) ==
    [name |-> name, is_load |-> is_load, effects |-> effects, is_pure |-> is_pure]

I32Add == Op("I32Add", FALSE, <<>>, TRUE)
I32Load == Op("I32Load", TRUE, <<"Trap", "ReadMem">>, FALSE)
I32DivS == Op("I32DivS", FALSE, <<"Trap">>, FALSE)
TableSize == Op("TableSize", FALSE, <<"ReadTable">>, FALSE)
MemorySize == Op("MemorySize", FALSE, <<"ReadMem">>, FALSE)
GlobalGet == Op("GlobalGet", FALSE, <<"ReadGlobal">>, FALSE)
TableGet == Op("TableGet", FALSE, <<"ReadTable", "Trap">>, FALSE)
I32Store == Op("I32Store", FALSE, <<"Trap", "WriteMem">>, FALSE)
GlobalSet == Op("GlobalSet", FALSE, <<"WriteGlobal">>, FALSE)
Call == Op("Call", FALSE, <<"All">>, FALSE)

Operators == {I32Add, I32Load, I32DivS, TableSize, MemorySize, GlobalGet, TableGet,
              I32Store, GlobalSet, Call}

\* ValueDef
BlockParam(block, idx, ty) == [kind |-> "BlockParam", block |-> block, idx |-> idx, ty |-> ty]
Operator(op, args, tys) == [kind |-> "Operator", op |-> op, args |-> args, tys |-> tys]
PickOutput(value, idx, ty) == [kind |-> "PickOutput", value |-> value, idx |-> idx, ty |-> ty]
Alias(value) == [kind |-> "Alias", value |-> value]

\* Terminator and BlockTarget
BlockTarget(block, args) == [block |-> block, args |-> args]
Br(target) == [kind |-> "Br", target |-> target]
CondBr(cond, if_true, if_false) ==
    [kind |-> "CondBr", cond |-> cond, if_true |-> if_true, if_false |-> if_false]
Select(value, targets, default) ==
    [kind |-> "Select", value |-> value, targets |-> targets, default |-> default]
Return(values) == [kind |-> "Return", values |-> values]
Unreachable == [kind |-> "Unreachable"]

BlockDef(params, insts, terminator) ==
    [params |-> params, insts |-> insts, terminator |-> terminator]

\* the targets of a terminator, in the order visit_targets / update_targets walk them
targets_of(terminator) ==
    CASE terminator.kind = "Br" -> <<terminator.target>>
      [] terminator.kind = "CondBr" -> <<terminator.if_true, terminator.if_false>>
      [] terminator.kind = "Select" -> Append(terminator.targets, terminator.default)
      [] OTHER -> <<>>

\* the elements of a sequence
Range(s) == {s[i] : i \in DOMAIN s}

\* CFGInfo of a body: the blocks reachable from the entry in reverse postorder, and each
\* block's position there (None for an unreachable block).  The bodies drawn below number
\* their blocks so that ascending order is a reverse postorder.
Successors(func, b) == {t.block : t \in Range(targets_of(func.blocks[b].terminator))}

ReachableBlocks(func) ==
    LET grow[i \in 0..Len(func.blocks)] ==
            IF i = 0 THEN {func.entry}
            ELSE grow[i - 1] \cup UNION {Successors(func, b) : b \in grow[i - 1]}
    IN grow[Len(func.blocks)]

CFGInfo(func) ==
    LET reach == ReachableBlocks(func)
        order[i \in 0..Len(func.blocks)] ==
            IF i = 0 THEN <<>>
            ELSE IF i \in reach THEN Append(order[i - 1], i) ELSE order[i - 1]
        rpo == order[Len(func.blocks)]
    IN [rpo |-> rpo,
        rpo_pos |-> [b \in DOMAIN func.blocks |->
                        IF b \in reach THEN Some(CHOOSE i \in DOMAIN rpo : rpo[i] = b)
                        ELSE None]]

\* dce.rs:8-34, the operator that lets every operator go
op_can_be_removed_any(op) == TRUE

\* dce.rs:8-34
op_can_be_removed(op) ==
    IF op.is_load THEN TRUE
    ELSE IF op.effects = <<"Trap">> THEN TRUE
    ELSE IF op.name \in {"TableSize", "MemorySize"} THEN TRUE
    ELSE IF op.name \in {"GlobalGet", "TableGet"} THEN TRUE
    ELSE IF op.is_pure THEN TRUE
    ELSE FALSE

\* the closure mark_used of scan_block (dce.rs:41-52): arg and every value on its alias
\* chain enter the used set; changed says whether one of them was new.  acc is the pair
\* [used, changed] scan_block carries along.
mark_used(func, acc, arg) ==
    LET chain[v \in DOMAIN func.values] ==
            IF func.values[v].kind = "Alias"
            THEN {v} \cup chain[func.values[v].value]
            ELSE {v}
    IN [used |-> acc.used \cup chain[arg],
        changed |-> acc.changed \/ ~(chain[arg] \subseteq acc.used)]

\* mark_used over a list of values, in order
mark_all(func, acc, args) ==
    LET f[i \in 0..Len(args)] ==
            IF i = 0 THEN acc ELSE mark_used(func, f[i - 1], args[i])
    IN f[Len(args)]

\* dce.rs:54-67, marking every argument whether its parameter is used or not
scan_target_all(func, acc, target) == mark_all(func, acc, target.args)

\* dce.rs:54-67: the arguments of one target, zipped with the target block's parameters
scan_target(func, acc, target) ==
    LET succ_params == func.blocks[target.block].params
        n == IF Len(target.args) < Len(succ_params) THEN Len(target.args)
             ELSE Len(succ_params)
        f[i \in 0..n] ==
            IF i = 0 THEN acc
            ELSE IF succ_params[i][2] \in f[i - 1].used
                 THEN mark_used(func, f[i - 1], target.args[i])
                 ELSE f[i - 1]
    IN f[n]

\* dce.rs:69-80: the values the terminator itself reads
scan_terminator(func, acc, terminator) ==
    CASE terminator.kind = "CondBr" -> mark_used(func, acc, terminator.cond)
      [] terminator.kind = "Select" -> mark_used(func, acc, terminator.value)
      [] terminator.kind = "Return" -> mark_all(func, acc, terminator.values)
      [] OTHER -> acc

\* dce.rs:84-109, marking the operands of every operator, used or not
scan_inst_eager(func, acc, inst) ==
    LET def == func.values[inst]
    IN CASE def.kind = "PickOutput" ->
                IF inst \in acc.used THEN mark_used(func, acc, def.value) ELSE acc
         [] def.kind = "Operator" ->
                LET a == IF ~op_can_be_removed(def.op)
                         THEN [used |-> acc.used \cup {inst},
                               changed |-> acc.changed \/ inst \notin acc.used]
                         ELSE acc
                IN mark_all(func, a, def.args)
         [] OTHER -> acc

\* dce.rs:84-109: one instruction of the backward walk
scan_inst(func, acc, inst) ==
    LET def == func.values[inst]
    IN CASE def.kind \in {"BlockParam", "Alias"} -> acc
         [] def.kind = "PickOutput" ->
                IF inst \in acc.used THEN mark_used(func, acc, def.value) ELSE acc
         [] def.kind = "Operator" ->
                LET a == IF ~op_can_be_removed(def.op)
                         THEN [used |-> acc.used \cup {inst},
                               changed |-> acc.changed \/ inst \notin acc.used]
                         ELSE acc
                IN IF inst \in a.used THEN mark_all(func, a, def.args) ELSE a
         [] OTHER -> acc

\* dce.rs:40-112: returns the used set after the scan and the bool scan_block returns
scan_block(func, block, used) ==
    LET terminator == func.blocks[block].terminator
        targets == targets_of(terminator)
        insts == func.blocks[block].insts
        t[i \in 0..Len(targets)] ==
            IF i = 0 THEN [used |-> used, changed |-> FALSE]
            ELSE scan_target(func, t[i - 1], targets[i])
        a == scan_terminator(func, t[Len(targets)], terminator)
        f[i \in 0..Len(insts)] ==
            IF i = 0 THEN a
            ELSE scan_inst(func, f[i - 1], insts[Len(insts) + 1 - i])
    IN f[Len(insts)]

\* dce.rs:119-126: blocks the CFG does not reach lose their contents
clear_unreachable(func, cfg) ==
    [func EXCEPT !.blocks =
        [b \in DOMAIN func.blocks |->
            IF cfg.rpo_pos[b] = None
            THEN BlockDef(<<>>, <<>>, Unreachable)
            ELSE func.blocks[b]]]

\* dce.rs:129-132, with no parameter seeded
entry_params_none(func) == {}

\* dce.rs:129-132: the used set starts as the entry block's parameters
entry_params(func) == {p[2] : p \in Range(func.blocks[func.entry].params)}

\* the elements of seq at the positions in keep, in order
KeepAt(seq, keep) ==
    LET f[i \in 0..Len(seq)] ==
            IF i = 0 THEN <<>>
            ELSE IF i \in keep THEN Append(f[i - 1], seq[i]) ELSE f[i - 1]
    IN f[Len(seq)]

\* dce.rs:150-156, leaving every argument in place
retain_args_keep(func, used, target) == target

\* dce.rs:150-156: the arguments of one target whose parameter, at the same index of the
\* target block's parameter list, is used
retain_args(func, used, target) ==
    LET succ_params == func.blocks[target.block].params
    IN BlockTarget(target.block,
                   KeepAt(target.args, {i \in DOMAIN target.args : succ_params[i][2] \in used}))

\* params[i] is indexed for every i below args.len(): a target with more arguments than
\* its block has parameters panics (index out of bounds)
args_overrun(func, target) == Len(target.args) > Len(func.blocks[target.block].params)

\* Terminator::update_targets with the closure of dce.rs:150-156
update_targets(func, used, terminator) ==
    CASE terminator.kind = "Br" ->
            Br(retain_args(func, used, terminator.target))
      [] terminator.kind = "CondBr" ->
            CondBr(terminator.cond, retain_args(func, used, terminator.if_true),
                   retain_args(func, used, terminator.if_false))
      [] terminator.kind = "Select" ->
            Select(terminator.value,
                   [i \in DOMAIN terminator.targets |->
                        retain_args(func, used, terminator.targets[i])],
                   retain_args(func, used, terminator.default))
      [] OTHER -> terminator

\* dce.rs:146-161: unused instructions, branch arguments and block parameters go.  The
\* arguments are pruned against the parameter lists as they are before any is pruned.
retain_used(func, used) ==
    [func EXCEPT !.blocks =
        [b \in DOMAIN func.blocks |->
            BlockDef(SelectSeq(func.blocks[b].params, LAMBDA p : p[2] \in used),
                     SelectSeq(func.blocks[b].insts, LAMBDA inst : inst \in used),
                     update_targets(func, used, func.blocks[b].terminator))]]

\* FunctionBody::resolve_alias
resolve_alias(func, value) ==
    LET f[v \in DOMAIN func.values] ==
            IF func.values[v].kind = "Alias" THEN f[func.values[v].value] ELSE v
    IN f[value]

\* ValueDef::ty: the single type of a value, None for an operator with no or several
\* results and for an alias
ty(def) ==
    CASE def.kind \in {"BlockParam", "PickOutput"} -> Some(def.ty)
      [] def.kind = "Operator" /\ Len(def.tys) = 1 -> Some(def.tys[1])
      [] OTHER -> None

\* the concatenation of a sequence of sequences
Concat(seqs) ==
    LET f[i \in 0..Len(seqs)] == IF i = 0 THEN <<>> ELSE f[i - 1] \o seqs[i]
    IN f[Len(seqs)]

\* the <<argument, <<param type, param>>>> pairs dce.rs:164-180 looks at, in its order:
\* block by block, target by target, the arguments zipped with the parameters
arg_param_pairs(func) ==
    LET of_target(t) ==
            LET succ_params == func.blocks[t.block].params
                n == IF Len(t.args) < Len(succ_params) THEN Len(t.args) ELSE Len(succ_params)
            IN [i \in 1..n |-> <<t.args[i], succ_params[i]>>]
        of_block(b) ==
            LET targets == targets_of(func.blocks[b].terminator)
            IN Concat([i \in DOMAIN targets |-> of_target(targets[i])])
    IN Concat([b \in DOMAIN func.blocks |-> of_block(b)])

\* dce.rs:164-180: "returned", or the way the first offending pair halts the check: the
\* unwrap of a missing type ("panicked") or the assert_eq on the two types
validate(func) ==
    LET pairs == arg_param_pairs(func)
        arg_ty(pair) == ty(func.values[resolve_alias(func, pair[1])])
        f[i \in 0..Len(pairs)] ==
            IF i = 0 THEN "returned"
            ELSE IF f[i - 1] # "returned" THEN f[i - 1]
            ELSE IF arg_ty(pairs[i]) = None THEN "panicked"
            ELSE IF arg_ty(pairs[i]) # Some(pairs[i][2][1]) THEN "assert_failed"
            ELSE "returned"
    IN f[Len(pairs)]

(***************************************************************************)
(* SpecDce: dce::run, one pass or one scan_block call per step, run a      *)
(* second time on its own output                                           *)
(***************************************************************************)
\* The bodies run is given.  Block 1 is the entry with parameter v1; block 2 has the
\* parameters v2 and v3; v4 and v5 are instructions of block 1, v6 of block 2, v7 of
\* block 3.  Block 3 is reachable only through a conditional branch or a select.  One
\* terminator of block 2 passes three arguments to the two parameters of its target.
result_tys(op) ==
    CASE op.name \in {"I32Store", "GlobalSet"} -> <<>>
      [] op.name = "Call" -> <<"I32", "I64">>
      [] OTHER -> <<"I32">>

Def5 == {Alias(4), PickOutput(4, 1, "I64"), Operator(I32Add, <<4>>, <<"I32">>),
         Operator(I32Store, <<4>>, <<>>)}

Term1 == {Br(BlockTarget(2, <<a, b>>)) : a \in {1, 5}, b \in {4, 5}}
         \cup {CondBr(1, BlockTarget(2, <<a, b>>), BlockTarget(3, <<>>)) :
                  a \in {1, 5}, b \in {4, 5}}

Term2 == {Return(<<>>), Return(<<6>>), Return(<<2>>),
          Br(BlockTarget(2, <<2, 3>>)),
          Br(BlockTarget(2, <<2, 3, 6>>)),
          CondBr(2, BlockTarget(2, <<6, 3>>), BlockTarget(3, <<>>)),
          CondBr(6, BlockTarget(2, <<2, 3>>), BlockTarget(3, <<>>)),
          Select(3, <<BlockTarget(2, <<3, 2>>)>>, BlockTarget(3, <<>>))}

Bodies ==
    {[values |-> <<BlockParam(1, 0, "I32"), BlockParam(2, 0, "I32"), BlockParam(2, 1, "I32"),
                   Operator(opA, <<1>>, result_tys(opA)), def5,
                   Operator(opB, <<x>>, result_tys(opB)),
                   Operator(I32Store, <<1>>, <<>>)>>,
      blocks |-> <<BlockDef(<<<<"I32", 1>>>>, <<4, 5>>, term1),
                   BlockDef(<<<<"I32", 2>>, <<"I32", 3>>>>, <<6>>, term2),
                   BlockDef(<<>>, <<7>>, Return(<<>>))>>,
      entry |-> 1] :
        opA \in Operators, def5 \in Def5, opB \in {I32Add, I32Store}, x \in {2, 3},
        term1 \in Term1, term2 \in Term2}

NoBody == [values |-> <<>>, blocks |-> <<>>, entry |-> 1]

InitDce ==
    /\ IdleContexts
    /\ IdleFlow
    /\ IdleImage
    /\ IdleAddr
    /\ IdleJoin
    /\ \E body \in Bodies :
          dce = [func |-> body,            \* the body run works on
                 cfg |-> CFGInfo(body),    \* the CFG information run is given
                 used |-> {},              \* the local `used`
                 pc |-> "start",           \* where run is: "start", "scan", "retain",
                                           \* "validate", "returned", "assert_failed", "panicked"
                 pos |-> 0,                \* index into cfg.rpo reversed of the next scan
                 changed |-> FALSE,        \* the local `changed` of the sweep under way
                 sweeps |-> 0,             \* sweeps of the fixed-point loop so far
                 runs |-> 1,               \* which call of run this is
                 given |-> body,           \* history: the body the first call was given
                 input |-> body,           \* history: the body this call was given
                 first |-> NoBody,         \* history: the body the first call left
                 scanned |-> <<>>]         \* history: <<block, used before, used after,
                                           \*            returned bool>> of the last scan_block

\* dce.rs:119-132
ClearUnreachable ==
    /\ dce # <<>>
    /\ dce.pc = "start"
    /\ dce' = [dce EXCEPT !.func = clear_unreachable(dce.func, dce.cfg),
                          !.used = entry_params(dce.func),
                          !.pc = "scan",
                          !.pos = 1,
                          !.changed = FALSE]
    /\ UNCHANGED <<ctxVars, flowVars, imVars, sa, join>>

\* dce.rs:133-142: one scan_block call of the loop; after the last block of a sweep the
\* loop breaks if no call of the sweep returned true, and starts the next sweep otherwise
ScanBlock ==
    /\ dce # <<>>
    /\ dce.pc = "scan"
    /\ LET rpo == dce.cfg.rpo
           block == rpo[Len(rpo) + 1 - dce.pos]
           r == scan_block(dce.func, block, dce.used)
           chg == dce.changed \/ r.changed
           last == dce.pos = Len(rpo)
       IN dce' = [dce EXCEPT !.used = r.used,
                             !.scanned = <<block, dce.used, r.used, r.changed>>,
                             !.pos = IF last THEN 1 ELSE dce.pos + 1,
                             !.changed = IF last THEN FALSE ELSE chg,
                             !.sweeps = IF last THEN dce.sweeps + 1 ELSE dce.sweeps,
                             !.pc = IF last /\ ~chg THEN "retain" ELSE "scan"]
    /\ UNCHANGED <<ctxVars, flowVars, imVars, sa, join>>

\* dce.rs:146-161
RetainUsed ==
    /\ dce # <<>>
    /\ dce.pc = "retain"
    /\ IF \E b \in DOMAIN dce.func.blocks :
             \E t \in Range(targets_of(dce.func.blocks[b].terminator)) :
                 args_overrun(dce.func, t)
       THEN dce' = [dce EXCEPT !.pc = "panicked"]
       ELSE dce' = [dce EXCEPT !.func = retain_used(dce.func, dce.used), !.pc = "validate"]
    /\ UNCHANGED <<ctxVars, flowVars, imVars, sa, join>>

\* dce.rs:164-180
Validate ==
    /\ dce # <<>>
    /\ dce.pc = "validate"
    /\ dce' = [dce EXCEPT !.pc = validate(dce.func)]
    /\ UNCHANGED <<ctxVars, flowVars, imVars, sa, join>>

\* run is called again on the body it returned, with the same CFG information
RunAgain ==
    /\ dce # <<>>
    /\ dce.pc = "returned"
    /\ dce.runs = 1
    /\ dce' = [dce EXCEPT !.pc = "start", !.runs = 2, !.input = dce.func, !.first = dce.func,
                          !.used = {}, !.pos = 0, !.changed = FALSE, !.sweeps = 0,
                          !.scanned = <<>>]
    /\ UNCHANGED <<ctxVars, flowVars, imVars, sa, join>>

NextDce ==
    \/ ClearUnreachable
    \/ ScanBlock
    \/ RetainUsed
    \/ Validate
    \/ RunAgain

SpecDce == InitDce /\ [][NextDce]_vars

(***************************************************************************)
(* SpecAddr: SymbolicAddr::add_offset and sub_offset (state.rs:113-135)    *)
(***************************************************************************)
\* The offset is an i64.  The model keeps its two's-complement range at a width of
\* OffsetBits bits: MinOffset..MaxOffset stands for i64::MIN..i64::MAX.
OffsetBits == 3
MaxCalls == 2         \* add_offset / sub_offset calls made on one address

MinOffset == -(2 ^ (OffsetBits - 1))
MaxOffset == 2 ^ (OffsetBits - 1) - 1
Offsets == MinOffset..MaxOffset

\* the sum reduced into the signed range, as a wrapping addition would
wrapping_add(a, b) == Some(((a + b - MinOffset) % (2 ^ OffsetBits)) + MinOffset)

\* i64::checked_add: the sum, or None when it leaves the signed range
checked_add(a, b) == IF a + b \in Offsets THEN Some(a + b) ELSE None

\* i64::checked_sub: the difference, or None when it leaves the signed range
checked_sub(a, b) == IF a - b \in Offsets THEN Some(a - b) ELSE None

\* state.rs:121-127: [pc, addr]; the unwrap of None panics and nothing is returned
add_offset(self, off) ==
    LET offset == checked_add(self.offset, off)
    IN IF offset = None
       THEN [pc |-> "panicked", addr |-> self]
       ELSE [pc |-> "ok", addr |-> SymbolicAddr(self.token, self.element_ty, offset[1])]

\* state.rs:128-134
sub_offset(self, off) ==
    LET offset == checked_sub(self.offset, off)
    IN IF offset = None
       THEN [pc |-> "panicked", addr |-> self]
       ELSE [pc |-> "ok", addr |-> SymbolicAddr(self.token, self.element_ty, offset[1])]

InitAddr ==
    /\ IdleContexts
    /\ IdleFlow
    /\ IdleImage
    /\ IdleJoin
    /\ IdleDce
    /\ \E token \in {0, 1}, element_ty \in Type, offset \in Offsets :
          sa = [addr |-> SymbolicAddr(token, element_ty, offset),  \* the address held
                pc |-> "ok",       \* "ok", or "panicked" once a call has aborted
                start |-> SymbolicAddr(token, element_ty, offset), \* history: as drawn
                prev |-> SymbolicAddr(token, element_ty, offset),  \* history: before the last call
                calls |-> <<>>]    \* history: the calls made, as <<"add" or "sub", off>>

\* addr = addr.add_offset(off)
AddOffset(off) ==
    /\ sa # <<>>
    /\ sa.pc = "ok"
    /\ Len(sa.calls) < MaxCalls
    /\ LET r == add_offset(sa.addr, off)
       IN sa' = [sa EXCEPT !.addr = r.addr, !.pc = r.pc, !.prev = sa.addr,
                           !.calls = Append(sa.calls, <<"add", off>>)]
    /\ UNCHANGED <<ctxVars, flowVars, imVars, join, dce>>

\* addr = addr.sub_offset(off)
SubOffset(off) ==
    /\ sa # <<>>
    /\ sa.pc = "ok"
    /\ Len(sa.calls) < MaxCalls
    /\ LET r == sub_offset(sa.addr, off)
       IN sa' = [sa EXCEPT !.addr = r.addr, !.pc = r.pc, !.prev = sa.addr,
                           !.calls = Append(sa.calls, <<"sub", off>>)]
    /\ UNCHANGED <<ctxVars, flowVars, imVars, join, dce>>

NextAddr ==
    \/ \E off \in Offsets : AddOffset(off)
    \/ \E off \in Offsets : SubOffset(off)

SpecAddr == InitAddr /\ [][NextAddr]_vars

(***************************************************************************)
(* SpecJoin, SpecOrder: a block entry state merged from the exit states of *)
(* its predecessors (state.rs:290-364)                                     *)
(*                                                                         *)
(* SpecJoin  : two predecessors; each exit state crosses its edge          *)
(*             (update_across_edge), the two are merged (clone, then       *)
(*             meet_with), and the block is entered (update_at_block_entry)*)
(* SpecOrder : three predecessors merged with successive meet_with calls,  *)
(*             once in the order drawn and once in any order               *)
(***************************************************************************)
\* a predecessor's exit state: a cell or none at one address, a value or none for one global
ExitStates ==
    {ProgPointState(m, g) :
        m \in MapsOver({AddrOrder[1]}, Cells), g \in MapsOver(FlowGlobals, CellAbs)}

\* the exit states of SpecOrder: the global is absent or holds one constant
OrderStates ==
    {ProgPointState(m, g) :
        m \in MapsOver({AddrOrder[1]}, Cells), g \in MapsOver(FlowGlobals, {Concrete(1)})}

\* join as it starts, from the predecessors' exit states and the states that reach the block
JoinOf(exits, ins) ==
    [exits |-> exits,     \* the predecessors' exit states
     ins |-> ins,         \* the states that have crossed their edge, in predecessor order
     acc |-> <<>>,        \* Option: the block entry state being merged
     merged |-> <<>>,     \* the predecessors merged into acc, in order
     acc2 |-> <<>>,       \* Option: the same block entry state merged in another order
     merged2 |-> <<>>,    \* the predecessors merged into acc2, in order
     entry |-> <<>>]      \* Option: what update_at_block_entry made of acc

InitJoin ==
    /\ IdleContexts
    /\ IdleFlow
    /\ IdleImage
    /\ IdleAddr
    /\ IdleDce
    /\ \E p1 \in ExitStates, p2 \in ExitStates : join = JoinOf(<<p1, p2>>, <<>>)

InitOrder ==
    /\ IdleContexts
    /\ IdleFlow
    /\ IdleImage
    /\ IdleAddr
    /\ IdleDce
    /\ \E p1 \in OrderStates, p2 \in OrderStates, p3 \in OrderStates :
          join = JoinOf(<<p1, p2, p3>>, <<p1, p2, p3>>)

\* the next predecessor's exit state crosses its edge: state.update_across_edge()
AcrossEdge ==
    /\ join # <<>>
    /\ Len(join.ins) < Len(join.exits)
    /\ join' = [join EXCEPT
                  !.ins = Append(join.ins, update_across_edge(join.exits[Len(join.ins) + 1]))]
    /\ UNCHANGED <<ctxVars, flowVars, imVars, sa, dce>>

\* the next predecessor is merged: the first state is cloned, the others are met with
\* meet_with
Merge ==
    /\ join # <<>>
    /\ Len(join.ins) = Len(join.exits)
    /\ Len(join.merged) < Len(join.ins)
    /\ LET i == Len(join.merged) + 1
       IN join' = [join EXCEPT
                     !.acc = IF join.acc = <<>> THEN <<join.ins[i]>>
                             ELSE <<meet_with(join.acc[1], join.ins[i]).state>>,
                     !.merged = Append(join.merged, i)]
    /\ UNCHANGED <<ctxVars, flowVars, imVars, sa, dce>>

\* the same merge, taking the predecessors in any order
MergeOther(i) ==
    /\ join # <<>>
    /\ Len(join.merged) = Len(join.ins)
    /\ i \in DOMAIN join.ins
    /\ i \notin Range(join.merged2)
    /\ join' = [join EXCEPT
                  !.acc2 = IF join.acc2 = <<>> THEN <<join.ins[i]>>
                           ELSE <<meet_with(join.acc2[1], join.ins[i]).state>>,
                  !.merged2 = Append(join.merged2, i)]
    /\ UNCHANGED <<ctxVars, flowVars, imVars, sa, dce>>

\* the state update_at_block_entry is called on
Entering == IF join.acc = <<>> THEN EmptyState ELSE join.acc[1]

\* the block is entered: state.update_at_block_entry(..)
BlockEntry(gb) ==
    /\ join # <<>>
    /\ Len(join.merged) = Len(join.exits)
    /\ join.entry = <<>>
    /\ join' = [join EXCEPT !.entry = <<update_at_block_entry(Entering, gb)>>]
    /\ UNCHANGED <<ctxVars, flowVars, imVars, sa, dce>>

NextJoin ==
    \/ AcrossEdge
    \/ Merge
    \/ \E gb \in [TypedMergeAddrs(Entering) -> BlockParams \X BlockParams] : BlockEntry(gb)

SpecJoin == InitJoin /\ [][NextJoin]_vars

NextOrder ==
    \/ Merge
    \/ \E i \in 1..3 : MergeOther(i)

SpecOrder == InitOrder /\ [][NextOrder]_vars

(***************************************************************************)
(* Claims about the Contexts arena  (SpecContexts)                         *)
(***************************************************************************)
\* the parent a create call looks up: none is the sentinel
NormParent(par) == IF par = None THEN Invalid ELSE par[1]

RECURSIVE Depth(_, _)
\* number of proper ancestors of c in the arena
Depth(cs, c) ==
    IF parent(cs, c) \notin Ids(cs) THEN 0 ELSE 1 + Depth(cs, parent(cs, c))

RECURSIVE TopOf(_, _)
\* the outermost ancestor of c: the one created with parent none
TopOf(cs, c) ==
    IF parent(cs, c) \notin Ids(cs) THEN c ELSE TopOf(cs, parent(cs, c))

\* c lives in a tree whose top is a Root context
Rooted(cs, c) == leaf_element(cs, TopOf(cs, c)).kind = "Root"

RECURSIVE PopOneLoopRec(_, _)
\* the recursive reading of pop_one_loop: Root is a fixed point, Loop gives
\* the parent, any other level is skipped
PopOneLoopRec(cs, c) ==
    IF c \notin Ids(cs) THEN [pc |-> "panic", ret |-> Invalid]
    ELSE IF leaf_element(cs, c).kind = "Root" THEN [pc |-> "done", ret |-> c]
    ELSE IF leaf_element(cs, c).kind = "Loop" THEN [pc |-> "done", ret |-> parent(cs, c)]
    ELSE PopOneLoopRec(cs, parent(cs, c))

RECURSIVE IsLoopChain(_, _)
\* c is the innermost of N >= 0 nested Loop contexts on top of the Root context
IsLoopChain(cs, c) ==
    /\ c \in Ids(cs)
    /\ \/ leaf_element(cs, c).kind = "Root" /\ parent(cs, c) = Invalid
       \/ leaf_element(cs, c).kind = "Loop" /\ IsLoopChain(cs, parent(cs, c))

RECURSIVE Ancestor(_, _, _)
\* the k-th ancestor of c (c itself for k = 0)
Ancestor(cs, c, k) == IF k = 0 THEN c ELSE Ancestor(cs, parent(cs, c), k - 1)

Min(a, b) == IF a <= b THEN a ELSE b

\* C1: context interning. For all create calls made so far: two calls with
\* equal (parent, element), parent none read as the invalid sentinel, returned
\* the same identifier and two calls with different pairs returned different
\* identifiers; and parent(id) / leaf_element(id) of every identifier handed
\* out are still what they were when it was created.
C1_Interning ==
    /\ \A a \in created : \A b \in created :
          (NormParent(a[1]) = NormParent(b[1]) /\ a[2] = b[2]) <=> (a[3] = b[3])
    /\ \A a \in created :
          /\ a[3] \in Ids(contexts)
          /\ parent(contexts, a[3]) = NormParent(a[1])
          /\ leaf_element(contexts, a[3]) = a[2]

\* a create call has just returned an identifier handed out before, in an
\* arena that holds several contexts
C1_Witness ==
    /\ lastCreate # <<>>
    /\ lastCreate[4]
    /\ Len(contexts) >= 2
    /\ lastCreate[3] < Len(contexts) - 1

\* C2 as stated: in any arena built by create calls, pop_one_loop of a
\* context of the arena never fails, returns a context of the arena and has
\* moved to a parent at most depth(ctx) times.
C2_AnyArena ==
    popArg \in Ids(contexts) =>
        /\ popPc # "panic"
        /\ popSteps <= Depth(contexts, popArg)
        /\ popPc = "done" => popRet \in Ids(contexts)

\* C2 as amended: for a context whose outermost ancestor (the context created
\* with parent none) has leaf Root, pop_one_loop never indexes outside the
\* arena, has moved to a parent at most depth(ctx) times, and returns a
\* context of the arena.
C2_RootedTerminates ==
    (popArg \in Ids(contexts) /\ Rooted(contexts, popArg)) =>
        /\ popPc # "panic"
        /\ popSteps <= Depth(contexts, popArg)
        /\ popPc = "loop" => popContext \in Ids(contexts)
        /\ popPc = "done" => popRet \in Ids(contexts)

\* pop_one_loop has returned for a PendingSpecialize / Specialized context of
\* a rooted tree after walking up at least one level
C2_Witness ==
    /\ popPc = "done"
    /\ popArg \in Ids(contexts)
    /\ Rooted(contexts, popArg)
    /\ leaf_element(contexts, popArg).kind \in {"PendingSpecialize", "Specialized"}
    /\ popSteps >= 1
    /\ popRet \in Ids(contexts)

\* C3: the result of pop_one_loop(ctx) is ctx for a Root leaf, parent(ctx)
\* for a Loop leaf and pop_one_loop(parent(ctx)) otherwise; and on a chain of
\* N nested Loop contexts on top of the Root context, the k-th application
\* returns the min(k, N)-th ancestor, so the Root context is reached within N
\* applications and every further application returns it again.
C3_PopResult ==
    /\ (popPc \in {"done", "panic"} /\ popArg \in Ids(contexts)) =>
          /\ popPc = PopOneLoopRec(contexts, popArg).pc
          /\ popRet = PopOneLoopRec(contexts, popArg).ret
    /\ (popPc = "done" /\ IsLoopChain(contexts, popFirst)) =>
          LET n == Depth(contexts, popFirst)
          IN /\ popRet = Ancestor(contexts, popFirst, Min(popApps, n))
             /\ popApps >= n =>
                   /\ leaf_element(contexts, popRet).kind = "Root"
                   /\ popRet = TopOf(contexts, popFirst)

\* pop_one_loop has been applied three times from the innermost of two nested
\* Loop contexts on the Root context
C3_Witness ==
    /\ popPc = "done"
    /\ IsLoopChain(contexts, popFirst)
    /\ Depth(contexts, popFirst) = 2
    /\ popApps = 3
    /\ popRet = TopOf(contexts, popFirst)

(***************************************************************************)
(* Claims about MemValue::meet and ProgPointState  (SpecFlow)              *)
(***************************************************************************)
\* number of times x occurs in seq
Count(seq, x) == Cardinality({i \in 1..Len(seq) : seq[i] = x})

\* the addresses both operands of the last meet_with held
InBoth == (DOMAIN prior.mem_overlay) \cap (DOMAIN other.mem_overlay)

\* the addresses at which both operands of the last meet_with held a Value
\* cell of one type
SameTypeValues ==
    {a \in InBoth : /\ prior.mem_overlay[a].kind = "Value"
                    /\ other.mem_overlay[a].kind = "Value"
                    /\ prior.mem_overlay[a].ty = other.mem_overlay[a].ty}

\* C4 as stated: the meet of two Value cells of the same type T is always
\* TypedMerge(T, meet(abs1, abs2)), whatever their data, addr, dirty and abs.
C4_AlwaysTypedMerge ==
    lastOp = "meet_with" =>
        \A a \in SameTypeValues :
            /\ a \in DOMAIN state.mem_overlay
            /\ state.mem_overlay[a] =
                  TypedMerge(prior.mem_overlay[a].ty,
                             AbstractValue_meet(prior.mem_overlay[a].abs,
                                                other.mem_overlay[a].abs))

\* C4 as amended: the meet of two Value cells of the same type T that differ
\* in data, addr, dirty or abs is TypedMerge(T, meet(abs1, abs2)); two
\* identical Value cells meet to that same Value cell.
C4_SameTypeMeet ==
    lastOp = "meet_with" =>
        \A a \in SameTypeValues :
            /\ a \in DOMAIN state.mem_overlay
            /\ state.mem_overlay[a] =
                  IF prior.mem_overlay[a] = other.mem_overlay[a]
                  THEN prior.mem_overlay[a]
                  ELSE TypedMerge(prior.mem_overlay[a].ty,
                                  AbstractValue_meet(prior.mem_overlay[a].abs,
                                                     other.mem_overlay[a].abs))

\* two Value cells of one type holding different constants have been met
C4_Witness ==
    /\ lastOp = "meet_with"
    /\ \E a \in SameTypeValues :
          /\ prior.mem_overlay[a].abs.kind = "Concrete"
          /\ other.mem_overlay[a].abs.kind = "Concrete"
          /\ prior.mem_overlay[a].abs # other.mem_overlay[a].abs
          /\ prior.mem_overlay[a].dirty # other.mem_overlay[a].dirty
          /\ state.mem_overlay[a] = TypedMerge(prior.mem_overlay[a].ty, Runtime(NoTags))

\* C5: meet_with returns true exactly when the call changed self, and a second
\* meet_with with the same other returns false.
C5_ChangedIffDiffers ==
    lastOp = "meet_with" =>
        /\ changed <=> (state # prior)
        /\ meets = 2 => ~changed

\* C6: after self.meet_with(other) the overlay holds exactly the addresses
\* both sides held, each with MemValue::meet of the two cells; the globals map
\* holds every global either side held, with AbstractValue::meet of the two
\* values where both held it and the runtime value with no tags where only
\* one did.
C6_MeetWithMaps ==
    lastOp = "meet_with" =>
        /\ DOMAIN state.mem_overlay = InBoth
        /\ \A a \in InBoth :
              state.mem_overlay[a] = MemValue_meet(prior.mem_overlay[a], other.mem_overlay[a])
        /\ DOMAIN state.globals = (DOMAIN prior.globals) \cup (DOMAIN other.globals)
        /\ \A g \in (DOMAIN prior.globals) \cup (DOMAIN other.globals) :
              state.globals[g] =
                  IF g \in (DOMAIN prior.globals) \cap (DOMAIN other.globals)
                  THEN AbstractValue_meet(prior.globals[g], other.globals[g])
                  ELSE Runtime(NoTags)

\* a meet_with has dropped an address only self held, and has reset to the
\* untagged runtime value a global only self held that was a constant
C6_Witness ==
    /\ lastOp = "meet_with"
    /\ \E a \in DOMAIN prior.mem_overlay :
          a \notin DOMAIN other.mem_overlay /\ a \notin DOMAIN state.mem_overlay
    /\ \E g \in DOMAIN prior.globals :
          /\ g \notin DOMAIN other.globals
          /\ prior.globals[g].kind = "Concrete"
          /\ state.globals[g] = Runtime(NoTags)

\* a cell that carries a type
HasType(x) == x.kind \in {"Value", "TypedMerge"}

\* two cells of different types, or a Flushed cell and a different cell
Disagree(x, y) ==
    \/ HasType(x) /\ HasType(y) /\ x.ty # y.ty
    \/ (x.kind = "Flushed" \/ y.kind = "Flushed") /\ x # y

\* C7: where the two states met held cells of different types (Value or
\* TypedMerge on either side), or a Flushed cell and a different cell,
\* meet_with leaves Conflict; the following update_at_block_entry removes the
\* address, calls remove_blockparam for it, and returns Ok.
C7_ConflictAbsorbed ==
    \A a \in (DOMAIN first.mem_overlay) \cap (DOMAIN other.mem_overlay) :
        Disagree(first.mem_overlay[a], other.mem_overlay[a]) =>
            /\ lastOp = "meet_with" =>
                  /\ a \in DOMAIN state.mem_overlay
                  /\ state.mem_overlay[a] = Conflict
            /\ (lastOp = "update_at_block_entry" /\ meets >= 1) =>
                  /\ a \notin DOMAIN state.mem_overlay
                  /\ Count(rbCalls, a) = 1
                  /\ result = "Ok"

\* an i32 Value and an i64 Value have been met and the address evicted at
\* block entry
C7_Witness ==
    /\ lastOp = "update_at_block_entry"
    /\ meets = 1
    /\ \E a \in (DOMAIN first.mem_overlay) \cap (DOMAIN other.mem_overlay) :
          /\ first.mem_overlay[a].kind = "Value" /\ first.mem_overlay[a].ty = "I32"
          /\ other.mem_overlay[a].kind = "Value" /\ other.mem_overlay[a].ty = "I64"
          /\ prior.mem_overlay[a] = Conflict
          /\ a \notin DOMAIN state.mem_overlay
          /\ rbCalls = <<a>>
    /\ result = "Ok"

\* C8: after update_at_block_entry no TypedMerge and no Conflict cell is left:
\* each TypedMerge(ty, abs) has become Value{data: param, ty, addr, abs,
\* dirty: true} with (addr, param) from exactly one get_blockparam(addr, ty)
\* call, each Conflict address is gone after exactly one remove_blockparam
\* call, and Flushed and Value cells are as they were.
C8_BlockEntry ==
    lastOp = "update_at_block_entry" =>
        /\ \A a \in DOMAIN state.mem_overlay :
              state.mem_overlay[a].kind \notin {"TypedMerge", "Conflict"}
        /\ \A a \in DOMAIN prior.mem_overlay :
              LET old == prior.mem_overlay[a]
              IN /\ old.kind = "TypedMerge" =>
                        /\ a \in DOMAIN state.mem_overlay
                        /\ state.mem_overlay[a] =
                              Value(gbRet[a][2], old.ty, gbRet[a][1], TRUE, old.abs)
                        /\ Count(gbCalls, <<a, old.ty>>) = 1
                        /\ Count(rbCalls, a) = 0
                 /\ old.kind = "Conflict" =>
                        /\ a \notin DOMAIN state.mem_overlay
                        /\ Count(rbCalls, a) = 1
                 /\ old.kind \in {"Value", "Flushed"} =>
                        /\ a \in DOMAIN state.mem_overlay
                        /\ state.mem_overlay[a] = old
                        /\ Count(rbCalls, a) = 0
        /\ DOMAIN state.mem_overlay \subseteq DOMAIN prior.mem_overlay
        /\ Len(gbCalls) = Cardinality(TypedMergeAddrs(prior))
        /\ Len(rbCalls) =
              Cardinality({a \in DOMAIN prior.mem_overlay : prior.mem_overlay[a] = Conflict})
        /\ state.globals = prior.globals

\* update_at_block_entry has run on an overlay holding a TypedMerge cell and a
\* Conflict cell, get_blockparam answering with two different values
C8_Witness ==
    /\ lastOp = "update_at_block_entry"
    /\ \E a \in DOMAIN prior.mem_overlay, b \in DOMAIN prior.mem_overlay :
          /\ prior.mem_overlay[a].kind = "TypedMerge"
          /\ gbRet[a][1] # gbRet[a][2]
          /\ state.mem_overlay[a].kind = "Value"
          /\ state.mem_overlay[a].dirty
          /\ prior.mem_overlay[b] = Conflict
          /\ b \notin DOMAIN state.mem_overlay

\* C9: update_across_edge turns every Value{ty, abs, ..} cell into
\* TypedMerge(ty, abs) and leaves the set of addresses, every TypedMerge,
\* Flushed and Conflict cell and the globals map as they were; no Value cell
\* is left.
C9_AcrossEdge ==
    lastOp = "update_across_edge" =>
        /\ DOMAIN state.mem_overlay = DOMAIN prior.mem_overlay
        /\ \A a \in DOMAIN prior.mem_overlay :
              LET old == prior.mem_overlay[a]
              IN /\ old.kind = "Value" => state.mem_overlay[a] = TypedMerge(old.ty, old.abs)
                 /\ old.kind # "Value" => state.mem_overlay[a] = old
        /\ \A a \in DOMAIN state.mem_overlay : state.mem_overlay[a].kind # "Value"
        /\ state.globals = prior.globals

\* update_across_edge has run on an overlay holding a Value cell and a
\* Flushed cell
C9_Witness ==
    /\ lastOp = "update_across_edge"
    /\ \E a \in DOMAIN prior.mem_overlay, b \in DOMAIN prior.mem_overlay :
          /\ prior.mem_overlay[a].kind = "Value"
          /\ state.mem_overlay[a].kind = "TypedMerge"
          /\ prior.mem_overlay[b].kind = "Flushed"
          /\ state.mem_overlay[b] = prior.mem_overlay[b]
    /\ DOMAIN prior.globals # {}

(***************************************************************************)
(* Claims about the function-entry state  (SpecEntry)                      *)
(***************************************************************************)
\* C10 as stated: the function-entry state has an empty overlay and maps
\* every global of the module, constant or not, to the runtime value with no
\* tags.
C10_EveryGlobal ==
    lastOp = "entry" =>
        /\ state.mem_overlay = EmptyMap
        /\ DOMAIN state.globals = DOMAIN module
        /\ \A g \in DOMAIN state.globals : state.globals[g] = Runtime(NoTags)

\* C10 as amended: the function-entry state has an empty overlay and maps to
\* the runtime value with no tags exactly the globals the Image records, which
\* are the module's globals defined in the module with a constant
\* initializer; an imported global, or one initialized from another global,
\* has no entry.
C10_ImageGlobals ==
    lastOp = "entry" =>
        /\ state.mem_overlay = EmptyMap
        /\ DOMAIN state.globals =
              {g \in DOMAIN module : module[g].kind = "Local" /\ module[g].init.kind = "Value"}
        /\ DOMAIN state.globals = DOMAIN im[1].globals
        /\ \A g \in DOMAIN state.globals : state.globals[g] = Runtime(NoTags)

\* the entry state of a module with a constant global, an imported global and
\* a global initialized from another global
C10_Witness ==
    /\ lastOp = "entry"
    /\ \E g \in DOMAIN module : module[g].kind = "Import" /\ g \notin DOMAIN state.globals
    /\ \E g \in DOMAIN module : module[g] = LocalGlobalInit /\ g \notin DOMAIN state.globals
    /\ \E g \in DOMAIN module :
          /\ module[g].kind = "Local" /\ module[g].init.kind = "Value"
          /\ state.globals[g] = Runtime(NoTags)
    /\ contexts = <<<<Invalid, Root>>>>

(***************************************************************************)
(* Claims about dead-code elimination  (SpecDce)                           *)
(***************************************************************************)
\* the blocks the CFG information reaches
Reached == {b \in DOMAIN dce.cfg.rpo_pos : dce.cfg.rpo_pos[b] # None}

\* the operators the specification lets DCE drop when their result is unused
Discardable(op) ==
    \/ op.is_load
    \/ op.effects = <<"Trap">>
    \/ op.name \in {"TableSize", "MemorySize", "TableGet", "GlobalGet"}
    \/ op.is_pure

\* inst is an instruction of block b of body
InstOf(body, b, inst) == inst \in Range(body.blocks[b].insts)

\* value is a parameter of block b of body
ParamOf(body, b, value) == \E p \in Range(body.blocks[b].params) : p[2] = value

\* wherever `before` defines value (as an instruction or as a block parameter), `after`
\* still does
DefinitionKept(before, after, value) ==
    \A b \in DOMAIN before.blocks :
        /\ InstOf(before, b, value) => InstOf(after, b, value)
        /\ ParamOf(before, b, value) => ParamOf(after, b, value)

\* C11: when run has returned, every operator instruction it removed was in a block the CFG
\* does not reach, or is outside the final used set and has a discardable operator (a load,
\* trap-only, table.size, memory.size, table.get, global.get, or pure); every other operator
\* instruction of a reached block is still in its block, and so is the definition of each of
\* its operands.
C11_EffectfulKept ==
    dce.pc = "returned" =>
        \A b \in DOMAIN dce.input.blocks :
            \A inst \in Range(dce.input.blocks[b].insts) :
                LET def == dce.input.values[inst]
                IN def.kind = "Operator" =>
                    /\ ~InstOf(dce.func, b, inst) =>
                          \/ b \notin Reached
                          \/ inst \notin dce.used /\ Discardable(def.op)
                    /\ b \in Reached /\ ~Discardable(def.op) =>
                          /\ InstOf(dce.func, b, inst)
                          /\ \A arg \in Range(def.args) :
                                DefinitionKept(dce.input, dce.func, arg)

\* the first run has returned having removed a store with its unreached block and an unused
\* discardable operator from a reached block, and having kept a store of a reached block
\* whose operand is defined by an instruction
C11_Witness ==
    /\ dce.pc = "returned"
    /\ dce.runs = 1
    /\ 3 \notin Reached
    /\ ~InstOf(dce.func, 3, 7)
    /\ \E b \in Reached : \E inst \in Range(dce.input.blocks[b].insts) :
          /\ dce.input.values[inst].kind = "Operator"
          /\ Discardable(dce.input.values[inst].op)
          /\ ~InstOf(dce.func, b, inst)
    /\ \E b \in Reached : \E inst \in Range(dce.func.blocks[b].insts) :
          /\ dce.func.values[inst].kind = "Operator"
          /\ ~Discardable(dce.func.values[inst].op)
          /\ \E arg \in Range(dce.func.values[inst].args) : InstOf(dce.func, b, arg)

\* the values a terminator reads: returned values, a branch condition or selector, and the
\* branch arguments that face a parameter of the target block
TerminatorOutputs(body) ==
    UNION {LET t == body.blocks[b].terminator
           IN (CASE t.kind = "Return" -> Range(t.values)
                 [] t.kind = "CondBr" -> {t.cond}
                 [] t.kind = "Select" -> {t.value}
                 [] OTHER -> {})
              \cup UNION {{tg.args[i] : i \in DOMAIN tg.args \cap DOMAIN body.blocks[tg.block].params} :
                          tg \in Range(targets_of(t))} :
           b \in DOMAIN body.blocks}

\* the values one operand, alias or pick-output link away from value
Links(body, value) ==
    LET def == body.values[value]
    IN CASE def.kind = "Operator" -> Range(def.args)
         [] def.kind \in {"Alias", "PickOutput"} -> {def.value}
         [] OTHER -> {}

\* the values reachable from roots by a chain of links
LinkedFrom(body, roots) ==
    LET grow[i \in 0..Len(body.values)] ==
            IF i = 0 THEN roots
            ELSE grow[i - 1] \cup UNION {Links(body, v) : v \in grow[i - 1]}
    IN grow[Len(body.values)]

\* the instructions of body whose operator is not discardable
KeptForEffect(body) ==
    {inst \in UNION {Range(body.blocks[b].insts) : b \in DOMAIN body.blocks} :
        body.values[inst].kind = "Operator" /\ ~Discardable(body.values[inst].op)}

\* C12 (as stated): when run has returned, every remaining instruction is reachable from a
\* terminator's outputs by a chain of operand, alias and pick-output links.
C12_TerminatorLive ==
    dce.pc = "returned" =>
        \A b \in DOMAIN dce.func.blocks :
            Range(dce.func.blocks[b].insts) \subseteq
                LinkedFrom(dce.func, TerminatorOutputs(dce.func))

\* C12 (amended): when run has returned, every remaining instruction is reachable by such a
\* chain from a terminator's outputs or from a remaining instruction whose operator is not
\* discardable.
C12_LiveOrEffectful ==
    dce.pc = "returned" =>
        \A b \in DOMAIN dce.func.blocks :
            Range(dce.func.blocks[b].insts) \subseteq
                LinkedFrom(dce.func, TerminatorOutputs(dce.func) \cup KeptForEffect(dce.func))

\* the first run has returned a body that still holds a discardable instruction a terminator
\* reaches through a link, next to a store no terminator reaches, and has removed another
C12_Witness ==
    /\ dce.pc = "returned"
    /\ dce.runs = 1
    /\ \E inst \in Range(dce.func.blocks[1].insts) :
          /\ dce.func.values[inst].kind = "Operator"
          /\ Discardable(dce.func.values[inst].op)
          /\ inst \notin TerminatorOutputs(dce.func)
          /\ inst \in LinkedFrom(dce.func, TerminatorOutputs(dce.func))
    /\ KeptForEffect(dce.func) # {}
    /\ dce.func.blocks # dce.given.blocks

\* the static type of a branch argument: the type of the value its alias chain ends in
ArgType(body, arg) == ty(body.values[resolve_alias(body, arg)])

\* every edge of body carries as many arguments as its target block has parameters, and
\* each argument has the type its parameter declares
EdgesTyped(body) ==
    \A b \in DOMAIN body.blocks :
        \A t \in Range(targets_of(body.blocks[b].terminator)) :
            /\ Len(t.args) = Len(body.blocks[t.block].params)
            /\ \A i \in DOMAIN t.args :
                  ArgType(body, t.args[i]) = Some(body.blocks[t.block].params[i][1])

\* the <<argument, parameter>> pairs of the edges leaving reached blocks of the body run
\* was given
InputPairs == arg_param_pairs(clear_unreachable(dce.input, dce.cfg))

\* C13: when run has returned, every remaining branch argument has the declared type of the
\* target block parameter at its position; a body with a mismatching pair never reaches the
\* return (run stops in the assertion); and for an input whose edges are all typed, run
\* never halts, every edge still carries as many arguments as its target has parameters,
\* and the remaining <<argument, parameter>> pairs are exactly the input's pairs whose
\* parameter survived, in the same order.
C13_TypesAligned ==
    /\ dce.pc = "returned" =>
          \A i \in DOMAIN arg_param_pairs(dce.func) :
              LET pair == arg_param_pairs(dce.func)[i]
              IN ArgType(dce.func, pair[1]) = Some(pair[2][1])
    /\ dce.pc = "assert_failed" =>
          \E i \in DOMAIN arg_param_pairs(dce.func) :
              LET pair == arg_param_pairs(dce.func)[i]
              IN ArgType(dce.func, pair[1]) # Some(pair[2][1])
    /\ EdgesTyped(dce.input) =>
          /\ dce.pc \notin {"assert_failed", "panicked"}
          /\ dce.pc \in {"validate", "returned"} =>
                /\ \A b \in DOMAIN dce.func.blocks :
                      \A t \in Range(targets_of(dce.func.blocks[b].terminator)) :
                          Len(t.args) = Len(dce.func.blocks[t.block].params)
                /\ arg_param_pairs(dce.func)
                      = SelectSeq(InputPairs,
                                  LAMBDA pair : \E b \in DOMAIN dce.func.blocks :
                                                   ParamOf(dce.func, b, pair[2][2]))

\* the first run has returned from a body with typed edges, having removed one of block 2's
\* two parameters and kept the other with the arguments that feed it
C13_Witness ==
    /\ dce.pc = "returned"
    /\ dce.runs = 1
    /\ EdgesTyped(dce.given)
    /\ Len(dce.given.blocks[2].params) = 2
    /\ Len(dce.func.blocks[2].params) = 1
    /\ Len(arg_param_pairs(dce.func)) >= 2

\* C14: a second run on the body the first run returned, with the same CFG information,
\* returns, and leaves every block's instructions, parameters and terminator (its branch
\* arguments included) as the first run left them.
C14_Idempotent ==
    dce.runs = 2 =>
        /\ dce.pc \notin {"assert_failed", "panicked"}
        /\ dce.pc = "returned" => dce.func = dce.first

\* the second run has returned on a body from which the first run had removed instructions,
\* a parameter and branch arguments
C14_Witness ==
    /\ dce.runs = 2
    /\ dce.pc = "returned"
    /\ Len(dce.first.blocks[1].insts) < Len(dce.given.blocks[1].insts)
    /\ Len(dce.first.blocks[2].params) = 1
    /\ Len(arg_param_pairs(dce.first)) < Len(arg_param_pairs(dce.given))
    /\ dce.first.blocks[1].insts # <<>>

\* C15: a scan_block call never takes a value out of the used set and returns true only if
\* it added one; the used set holds values of the function only; the loop makes at most
\* (number of values + 1) sweeps; the entry block's parameters are in the used set from the
\* start of the loop on and are still the entry block's parameters after the removal.
C15_LoopBounded ==
    /\ dce.scanned # <<>> =>
          /\ dce.scanned[2] \subseteq dce.scanned[3]
          /\ dce.scanned[4] => dce.scanned[3] # dce.scanned[2]
          /\ dce.scanned[3] = dce.used
    /\ dce.used \subseteq DOMAIN dce.func.values
    /\ dce.sweeps <= Len(dce.func.values) + 1
    /\ dce.pc # "start" =>
          \A p \in Range(dce.input.blocks[dce.input.entry].params) : p[2] \in dce.used
    /\ dce.func.blocks[dce.func.entry].params = dce.input.blocks[dce.input.entry].params

\* the first run has returned after three sweeps, the last scan_block call of the loop
\* having returned false, with the entry block's parameter in place
C15_Witness ==
    /\ dce.pc = "returned"
    /\ dce.runs = 1
    /\ dce.sweeps >= 3
    /\ dce.scanned[4] = FALSE
    /\ ParamOf(dce.func, 1, 1)

(***************************************************************************)
(* Claims about SymbolicAddr  (SpecAddr)                                   *)
(***************************************************************************)
\* the offset the last call should produce, as an unbounded integer
ExactOffset ==
    LET call == sa.calls[Len(sa.calls)]
    IN IF call[1] = "add" THEN sa.prev.offset + call[2] ELSE sa.prev.offset - call[2]

\* C16: after add_offset(off) or sub_offset(off), if the exact offset (offset + off or
\* offset - off) fits the signed range the call has returned the address with the same
\* token and element type and exactly that offset, and otherwise it has aborted and
\* returned nothing; the address held is never one with a wrapped offset; and
\* add_offset(off) followed by sub_offset(off) gives back the original address.
C16_CheckedOffsets ==
    sa.calls # <<>> =>
        /\ ExactOffset \in Offsets =>
              /\ sa.pc = "ok"
              /\ sa.addr = SymbolicAddr(sa.prev.token, sa.prev.element_ty, ExactOffset)
        /\ ExactOffset \notin Offsets =>
              /\ sa.pc = "panicked"
              /\ sa.addr = sa.prev
        /\ /\ sa.pc = "ok"
           /\ Len(sa.calls) = 2
           /\ sa.calls[1][1] = "add"
           /\ sa.calls[2] = <<"sub", sa.calls[1][2]>>
           => sa.addr = sa.start

\* add_offset(off) then sub_offset(off) with off nonzero have both returned
C16_Witness ==
    /\ sa.pc = "ok"
    /\ Len(sa.calls) = 2
    /\ sa.calls[1][1] = "add"
    /\ sa.calls[1][2] # 0
    /\ sa.calls[2] = <<"sub", sa.calls[1][2]>>
    /\ sa.addr = sa.start
    /\ sa.prev # sa.start

(***************************************************************************)
(* Claims about block entry states merged from predecessors                *)
(* (SpecJoin, SpecOrder)                                                   *)
(***************************************************************************)
\* the address the drawn exit states hold a cell at
JoinAddr == AddrOrder[1]

\* both predecessors left a tracked Value cell of one type at the address
BothValuesOfOneType ==
    /\ \A i \in 1..2 :
          /\ JoinAddr \in DOMAIN join.exits[i].mem_overlay
          /\ join.exits[i].mem_overlay[JoinAddr].kind = "Value"
    /\ join.exits[1].mem_overlay[JoinAddr].ty = join.exits[2].mem_overlay[JoinAddr].ty

\* C17 (as stated): when both predecessors left a Value cell of the same type T at the
\* address, with abstract values abs1 and abs2, and each state crossed its edge before the
\* merge, the merged cell is TypedMerge(T, meet(abs1, abs2)) and update_at_block_entry
\* leaves a dirty Value there, backed by the block parameter get_blockparam returned.
C17_SameTypeMergeKept ==
    Len(join.merged) = 2 /\ BothValuesOfOneType =>
        LET c1 == join.exits[1].mem_overlay[JoinAddr]
            c2 == join.exits[2].mem_overlay[JoinAddr]
            merged == join.acc[1].mem_overlay
        IN /\ JoinAddr \in DOMAIN merged
           /\ merged[JoinAddr] = TypedMerge(c1.ty, AbstractValue_meet(c1.abs, c2.abs))
           /\ join.entry # <<>> =>
                 LET entered == join.entry[1].state.mem_overlay
                 IN /\ JoinAddr \in DOMAIN entered
                    /\ entered[JoinAddr].kind = "Value"
                    /\ entered[JoinAddr].dirty
                    /\ join.entry[1].rbCalls = <<>>

\* the three cells the predecessors hold at the address, when all three hold one
OrderCells == [i \in 1..3 |-> join.exits[i].mem_overlay[JoinAddr]]

\* C18 (as stated): once the three predecessors are merged in both orders, the two block
\* entry states have the same memory overlay and the same globals map; and MemValue::meet
\* is commutative and associative on the cells the three predecessors hold at the address.
C18_OrderIndependent ==
    Len(join.merged) = 3 /\ Len(join.merged2) = 3 =>
        /\ join.acc[1].mem_overlay = join.acc2[1].mem_overlay
        /\ join.acc[1].globals = join.acc2[1].globals
        /\ (\A i \in 1..3 : JoinAddr \in DOMAIN join.exits[i].mem_overlay) =>
              /\ \A i, j \in 1..3 :
                    MemValue_meet(OrderCells[i], OrderCells[j])
                        = MemValue_meet(OrderCells[j], OrderCells[i])
              /\ MemValue_meet(MemValue_meet(OrderCells[1], OrderCells[2]), OrderCells[3])
                    = MemValue_meet(OrderCells[1], MemValue_meet(OrderCells[2], OrderCells[3]))

====
